---- MODULE Spec2Model ----
(***************************************************************************)
(* Model of the peg-maintenance engine of endur (src/src/stable.rs):       *)
(* update_balances (the balance reconciler) and check_stability (the       *)
(* stability decision engine), run against a node runtime, a price source  *)
(* and an audit sink that are external collaborators.                      *)
(*                                                                         *)
(* Amounts.  Bitcoin amounts are integer satoshis (u64).  Prices and USD   *)
(* amounts are f64 in the program; here a price is an integer number of    *)
(* price units and a USD amount is an integer number of (price unit x      *)
(* satoshi), so that USD::from_bitcoin(sats, price) = sats * price is      *)
(* exact, and percent_from_par is the exact rational                       *)
(* |dollars_from_par| * 100 / |expected_usd| kept as numerator and         *)
(* denominator (a zero denominator stands for the non-finite f64 values    *)
(* infinity and NaN, for which every `<` comparison is false).             *)
(*                                                                         *)
(* u64 arithmetic is kept modulo U64Modulus, a scaled-down 2^64: where an  *)
(* addition or subtraction leaves the range, a build with overflow checks  *)
(* panics (the call never returns, and the model stops there) and a build  *)
(* without them wraps: the model takes either outcome.                     *)
(*                                                                         *)
(* The Endur handle of src/src/lib.rs, which starts and stops the node and *)
(* answers queries against it, is a second state machine (EndurSpec) over  *)
(* the variables endur, endur_last and processing; the two do not share    *)
(* state.  The methods of the handle run one at a time, but the runtime    *)
(* queues events on the node at any moment, also between any two node      *)
(* calls of the loop of process_events.                                    *)
(***************************************************************************)
EXTENDS Integers, Sequences, FiniteSets, TLC

VARIABLES
  stable_channel,   \* the StableChannel (peg tracker) the caller owns
  reconciled,       \* the channel of the latest matching reconciliation
  last,             \* what the latest call did: events, runtime calls, result
  endur,            \* the Endur handle of lib.rs: its field node
  endur_last,       \* the latest call on the handle and what it returned
  processing        \* a process_events in progress: the strings collected,
                    \* and whether the event read last is not yet handled

vars == <<stable_channel, reconciled, last, endur, endur_last, processing>>

tracker_vars == <<stable_channel, reconciled, last>>

endur_vars == <<endur, endur_last, processing>>

(***************************************************************************)
(* Bounds and input domains                                                *)
(***************************************************************************)
U64Modulus == 4096

None == <<>>
Some(v) == <<v>>
unwrap_or(o, d) == IF o = None THEN d ELSE o[1]

Abs(x) == IF x < 0 THEN 0 - x ELSE x

ZeroChannelId == 0

OnchainSats == {5}

PriceArgs == {-1, 0, 1, 2}
CachedPrices == {0, 2}
FetchResults == {None, Some(1)}

\* the configurations (expected_usd, risk_level) a tracker is created with
Configs == {<<100, 10>>, <<1000, 100>>, <<1000, 101>>, <<1999, 10>>}

\* channel snapshots the runtime reports: value, outbound capacity, reserve
Snapshot(value, outbound_msat, reserve) ==
  [channel_value_sats |-> value, outbound_capacity_msat |-> outbound_msat,
   unspendable_punishment_reserve |-> reserve]

Snapshots ==
  {Snapshot(1000, 94000, None), Snapshot(1000, 999999, None),
   Snapshot(1000, 999999, Some(1)), Snapshot(2000, 1001000, None),
   Snapshot(1000, 1001000, None), Snapshot(1000, 94000, Some(U64Modulus - 1))}

WithId(id, snapshot) == [channel_id |-> id] @@ snapshot

OtherChannel(id) == WithId(id, Snapshot(1000, 94000, None))

Channels == {WithId(1, s) : s \in Snapshots} \cup {OtherChannel(2)}

ChannelLists ==
  {<<>>}
    \cup {<<c>> : c \in Channels}
    \cup {<<OtherChannel(1), OtherChannel(2)>>, <<OtherChannel(2), OtherChannel(1)>>,
          <<OtherChannel(2), WithId(1, Snapshot(1000, 999999, Some(1)))>>}

(***************************************************************************)
(* Monetary value types (crate::types)                                     *)
(***************************************************************************)
Bitcoin_from_sats(sats) == sats

USD_from_bitcoin(btc, price) == btc * price

USD_to_msats(usd, price) == (Abs(usd) * 1000) \div price

(***************************************************************************)
(* Price source                                                            *)
(***************************************************************************)
get_current_price(cached_price, fetched) ==
  IF cached_price > 0 THEN cached_price ELSE unwrap_or(fetched, 0)

(***************************************************************************)
(* update_balances                                                         *)
(***************************************************************************)
\* lines 30-37: a latest_price of 0 is looked up: the cache is read (line
\* 31, cached_price); when that is 0 get_current_price reads the cache again
\* (line 13, cached_again, which may differ from the first read) and fetches
\* only when the second read is not positive
LookupPrice(sc, cached_price, cached_again, fetched) ==
  IF sc.latest_price = 0
  THEN IF cached_price = 0
       THEN get_current_price(cached_again, fetched)
       ELSE cached_price
  ELSE sc.latest_price

\* the calls of lines 31, 13 and 20, in order
LookupCalls(sc, cached_price, cached_again) ==
  IF sc.latest_price = 0
  THEN IF cached_price = 0
       THEN IF cached_again > 0
            THEN <<"get_cached_price", "get_cached_price">>
            ELSE <<"get_cached_price", "get_cached_price", "get_latest_price">>
       ELSE <<"get_cached_price">>
  ELSE <<>>

\* mutant of matching_channel: an unset id takes the last reported channel
matching_channel_Last(sc, channels) ==
  IF sc.channel_id = ZeroChannelId
  THEN IF channels = <<>> THEN None ELSE Some(channels[Len(channels)])
  ELSE LET found == {i \in 1..Len(channels) : channels[i].channel_id = sc.channel_id}
       IN IF found = {} THEN None
          ELSE Some(channels[CHOOSE i \in found : \A j \in found : i <= j])

\* lines 45-49: the first channel when the id is unset, else the first
\* channel with that id
matching_channel(sc, channels) ==
  IF sc.channel_id = ZeroChannelId
  THEN IF Len(channels) = 0 THEN None ELSE Some(channels[1])
  ELSE LET hits == {i \in 1..Len(channels) :
                      channels[i].channel_id = sc.channel_id}
       IN IF hits = {} THEN None
          ELSE Some(channels[CHOOSE i \in hits : \A j \in hits : i <= j])

\* line 58, before the result is cut to 64 bits
our_balance_sum(channel) ==
  (channel.outbound_capacity_msat \div 1000)
    + unwrap_or(channel.unspendable_punishment_reserve, 0)

our_balance_sats(channel) == our_balance_sum(channel) % U64Modulus

\* line 59
their_balance_sats(channel) ==
  (channel.channel_value_sats - our_balance_sats(channel)) % U64Modulus

\* lines 58-59 leave the u64 range
Overflows(channel) ==
  \/ our_balance_sum(channel) >= U64Modulus
  \/ channel.channel_value_sats < our_balance_sats(channel)

\* lines 61-67
AssignBalances(sc, channel) ==
  IF sc.is_receiver
  THEN [sc EXCEPT !.receiver_btc = Bitcoin_from_sats(our_balance_sats(channel)),
                  !.provider_btc = Bitcoin_from_sats(their_balance_sats(channel))]
  ELSE [sc EXCEPT !.provider_btc = Bitcoin_from_sats(our_balance_sats(channel)),
                  !.receiver_btc = Bitcoin_from_sats(their_balance_sats(channel))]

\* lines 69-70
ConvertBalances(sc) ==
  [sc EXCEPT !.receiver_usd = USD_from_bitcoin(sc.receiver_btc, sc.latest_price),
             !.provider_usd = USD_from_bitcoin(sc.provider_btc, sc.latest_price)]

\* lines 72-82
BalanceUpdateEvent(sc) ==
  [type |-> "BALANCE_UPDATE", channel_id |-> sc.channel_id,
   receiver_btc |-> sc.receiver_btc, provider_btc |-> sc.provider_btc,
   receiver_usd |-> sc.receiver_usd, provider_usd |-> sc.provider_usd,
   btc_price |-> sc.latest_price]

\* lines 39-42
UpdateOnchain(sc, onchain_sats) ==
  LET btc == Bitcoin_from_sats(onchain_sats)
  IN [sc EXCEPT !.onchain_btc = btc,
                !.onchain_usd = USD_from_bitcoin(btc, sc.latest_price)]

\* line 52-55
AdoptChannelId(sc, channel) ==
  IF sc.channel_id = ZeroChannelId
  THEN [sc EXCEPT !.channel_id = channel.channel_id]
  ELSE sc

\* line 88: the flag returned when no channel matched
NoMatchFlag == TRUE

\* mutant of NoMatch: the channel balances are zeroed when no channel matches
NoMatch_ZeroesBalances(sc, calls) ==
  [ret |-> "returned", success |-> NoMatchFlag,
   sc |-> [sc EXCEPT !.receiver_btc = 0, !.receiver_usd = 0,
                     !.provider_btc = 0, !.provider_usd = 0],
   matched |-> None, events |-> <<>>, calls |-> calls]

\* lines 87-88: no channel matched; nothing more is assigned, no audit event
NoMatch(sc, calls) ==
  [ret |-> "returned", success |-> NoMatchFlag, sc |-> sc,
   matched |-> None, events |-> <<>>, calls |-> calls]

\* the whole of update_balances: the tracker it leaves, the flag it returns
\* (ret = "panic": it did not return), the events and the runtime calls
update_balances(sc, cached_price, cached_again, fetched, onchain_sats, channels, checks) ==
  LET sc1 == [sc EXCEPT !.latest_price =
                          LookupPrice(sc, cached_price, cached_again, fetched)]
      sc2 == UpdateOnchain(sc1, onchain_sats)
      m == matching_channel(sc2, channels)
      calls == LookupCalls(sc, cached_price, cached_again)
                 \o <<"list_balances", "list_channels">>
  IN IF m = None
     THEN NoMatch(sc2, calls)
     ELSE LET sc3 == AdoptChannelId(sc2, m[1])
              sc4 == ConvertBalances(AssignBalances(sc3, m[1]))
          IN IF checks /\ Overflows(m[1])
             THEN [ret |-> "panic", success |-> FALSE, sc |-> sc3,
                   matched |-> m, events |-> <<>>, calls |-> calls]
             ELSE [ret |-> "returned", success |-> TRUE, sc |-> sc4,
                   matched |-> m, events |-> <<BalanceUpdateEvent(sc4)>>,
                   calls |-> calls]

(***************************************************************************)
(* check_stability                                                         *)
(***************************************************************************)
\* lines 92-107: the explicit price when positive, else the cached price
\* when positive, else none
ResolvePrice(price, cached_price) ==
  IF price > 0 THEN Some(price)
  ELSE IF cached_price > 0 THEN Some(cached_price) ELSE None

\* line 121
dollars_from_par(sc) == sc.receiver_usd - sc.expected_usd

\* line 122, as numerator and denominator
percent_num(sc) == Abs(dollars_from_par(sc)) * 100
percent_den(sc) == Abs(sc.expected_usd)

\* line 123
is_receiver_below_expected(sc) == sc.receiver_usd < sc.expected_usd

\* mutant of BelowDeadband: the deadband includes its boundary
BelowDeadband_Inclusive(num, den) == den # 0 /\ num * 10 <= den

\* line 125: percent_from_par < 0.1 (false for a non-finite percent_from_par)
BelowDeadband(num, den) == den # 0 /\ num * 10 < den

\* mutant of SelectAction: the direction test is inverted
SelectAction_DirectionInverted(sc) ==
  IF BelowDeadband(percent_num(sc), percent_den(sc)) THEN "STABLE"
  ELSE IF sc.risk_level > 100 THEN "HIGH_RISK_NO_ACTION"
  ELSE IF \/ sc.is_receiver /\ ~is_receiver_below_expected(sc)
          \/ ~sc.is_receiver /\ is_receiver_below_expected(sc)
       THEN "CHECK_ONLY"
  ELSE "PAY"

\* mutant of SelectAction: the risk test comes before the deadband test
SelectAction_RiskFirst(sc) ==
  IF sc.risk_level > 100 THEN "HIGH_RISK_NO_ACTION"
  ELSE IF BelowDeadband(percent_num(sc), percent_den(sc)) THEN "STABLE"
  ELSE IF \/ sc.is_receiver /\ is_receiver_below_expected(sc)
          \/ ~sc.is_receiver /\ ~is_receiver_below_expected(sc)
       THEN "CHECK_ONLY"
  ELSE "PAY"

\* mutant of SelectAction: the risk test is missing
SelectAction_NoRiskOverride(sc) ==
  IF BelowDeadband(percent_num(sc), percent_den(sc)) THEN "STABLE"
  ELSE IF \/ sc.is_receiver /\ is_receiver_below_expected(sc)
          \/ ~sc.is_receiver /\ ~is_receiver_below_expected(sc)
       THEN "CHECK_ONLY"
  ELSE "PAY"

\* mutant of SelectAction: the direction rule tests the receiver's half only
SelectAction_ReceiverOnly(sc) ==
  IF BelowDeadband(percent_num(sc), percent_den(sc)) THEN "STABLE"
  ELSE IF sc.risk_level > 100 THEN "HIGH_RISK_NO_ACTION"
  ELSE IF sc.is_receiver /\ is_receiver_below_expected(sc) THEN "CHECK_ONLY"
  ELSE "PAY"

\* lines 125-135
SelectAction(sc) ==
  IF BelowDeadband(percent_num(sc), percent_den(sc)) THEN "STABLE"
  ELSE IF sc.risk_level > 100 THEN "HIGH_RISK_NO_ACTION"
  ELSE IF \/ sc.is_receiver /\ is_receiver_below_expected(sc)
          \/ ~sc.is_receiver /\ ~is_receiver_below_expected(sc)
       THEN "CHECK_ONLY"
  ELSE "PAY"

\* lines 99-104
SkipEvent == [type |-> "STABILITY_SKIP", reason |-> "no valid price available"]

\* lines 112-117
BalanceUpdateFailedEvent(sc) ==
  [type |-> "BALANCE_UPDATE_FAILED", channel_id |-> sc.channel_id]

\* lines 137-148
StabilityCheckEvent(sc, action) ==
  [type |-> "STABILITY_CHECK", expected_usd |-> sc.expected_usd,
   current_receiver_usd |-> sc.receiver_usd,
   percent_num |-> percent_num(sc), percent_den |-> percent_den(sc),
   btc_price |-> sc.latest_price, action |-> action,
   is_receiver |-> sc.is_receiver, risk_level |-> sc.risk_level]

\* lines 158-165 and 168-175
PaymentEvent(sc, amt, ok) ==
  [type |-> IF ok THEN "STABILITY_PAYMENT_SENT" ELSE "STABILITY_PAYMENT_FAILED",
   amount_msats |-> amt, counterparty |-> sc.counterparty]

\* mutant of AfterSend: payment_made is set on the attempt, whatever it returns
AfterSend_OnAttempt(sc, ok) == [sc EXCEPT !.payment_made = TRUE]

\* mutant of AfterSend: payment_made records the outcome of the latest send
AfterSend_RecordsOutcome(sc, ok) == [sc EXCEPT !.payment_made = ok]

\* lines 155-177: the tracker after the send returned ok or an error
AfterSend(sc, ok) ==
  IF ok THEN [sc EXCEPT !.payment_made = TRUE] ELSE sc

EventTypes(events) == [i \in 1..Len(events) |-> events[i].type]

Count(seq, x) == Cardinality({i \in 1..Len(seq) : seq[i] = x})

\* what a call leaves when it stops before action selection; every runtime
\* call before that point precedes every audit event (trace is the two in the
\* order the code makes them)
Stopped(ret, sc, events, calls, resolved, success, matched) ==
  [ret |-> ret, sc |-> sc, events |-> events, calls |-> calls,
   resolved |-> resolved, success |-> success, matched |-> matched,
   action |-> "NONE", dollars_from_par |-> 0, percent_num |-> 0,
   percent_den |-> 0, is_receiver_below_expected |-> FALSE,
   amt |-> None, sent |-> None, at_pay |-> None,
   trace |-> calls \o EventTypes(events)]

\* mutant of Pays: only STABLE returns before the payment
Pays_UnlessStable(action) == action # "STABLE"

\* lines 150-152: every action but PAY returns before the payment
Pays(action) == action = "PAY"

\* mutant of Decide: STABILITY_CHECK is emitted after the payment's outcome
Decide_CheckAfterPayment(sc, events, calls, resolved, matched, send_ok) ==
  LET action == SelectAction(sc)
      amt == USD_to_msats(dollars_from_par(sc), sc.latest_price)
      pay == Pays(action)
  IN [ret |-> "returned",
      sc |-> IF pay THEN AfterSend(sc, send_ok) ELSE sc,
      events |-> events
                   \o (IF pay THEN <<PaymentEvent(sc, amt, send_ok)>> ELSE <<>>)
                   \o <<StabilityCheckEvent(sc, action)>>,
      calls |-> calls \o (IF pay THEN <<"send">> ELSE <<>>),
      resolved |-> resolved, success |-> Some(TRUE), matched |-> matched,
      action |-> action, dollars_from_par |-> dollars_from_par(sc),
      percent_num |-> percent_num(sc), percent_den |-> percent_den(sc),
      is_receiver_below_expected |-> is_receiver_below_expected(sc),
      amt |-> IF pay THEN Some(amt) ELSE None,
      sent |-> IF pay THEN Some(send_ok) ELSE None,
      at_pay |-> IF pay THEN Some(sc) ELSE None,
      trace |-> calls \o EventTypes(events)
                  \o (IF pay THEN <<"send", PaymentEvent(sc, amt, send_ok).type>>
                      ELSE <<>>)
                  \o <<"STABILITY_CHECK">>]

\* mutant of Decide: a failed send is attempted a second time
Decide_RetriesSend(sc, events, calls, resolved, matched, send_ok) ==
  LET action == SelectAction(sc)
      amt == USD_to_msats(dollars_from_par(sc), sc.latest_price)
      pay == Pays(action)
      sends == IF ~pay THEN <<>>
               ELSE IF send_ok THEN <<"send">> ELSE <<"send", "send">>
  IN [ret |-> "returned",
      sc |-> IF pay THEN AfterSend(sc, send_ok) ELSE sc,
      events |-> events \o <<StabilityCheckEvent(sc, action)>>
                   \o (IF pay THEN <<PaymentEvent(sc, amt, send_ok)>> ELSE <<>>),
      calls |-> calls \o sends,
      resolved |-> resolved, success |-> Some(TRUE), matched |-> matched,
      action |-> action, dollars_from_par |-> dollars_from_par(sc),
      percent_num |-> percent_num(sc), percent_den |-> percent_den(sc),
      is_receiver_below_expected |-> is_receiver_below_expected(sc),
      amt |-> IF pay THEN Some(amt) ELSE None,
      sent |-> IF pay THEN Some(send_ok) ELSE None,
      at_pay |-> IF pay THEN Some(sc) ELSE None,
      trace |-> calls \o EventTypes(events) \o <<"STABILITY_CHECK">> \o sends
                  \o (IF pay THEN <<PaymentEvent(sc, amt, send_ok).type>>
                      ELSE <<>>)]

\* lines 121-177: deviation, action, STABILITY_CHECK and the payment
Decide(sc, events, calls, resolved, matched, send_ok) ==
  LET action == SelectAction(sc)
      amt == USD_to_msats(dollars_from_par(sc), sc.latest_price)
      pay == Pays(action)
  IN [ret |-> "returned",
      sc |-> IF pay THEN AfterSend(sc, send_ok) ELSE sc,
      events |-> events \o <<StabilityCheckEvent(sc, action)>>
                   \o (IF pay THEN <<PaymentEvent(sc, amt, send_ok)>> ELSE <<>>),
      calls |-> calls \o (IF pay THEN <<"send">> ELSE <<>>),
      resolved |-> resolved, success |-> Some(TRUE), matched |-> matched,
      action |-> action, dollars_from_par |-> dollars_from_par(sc),
      percent_num |-> percent_num(sc), percent_den |-> percent_den(sc),
      is_receiver_below_expected |-> is_receiver_below_expected(sc),
      amt |-> IF pay THEN Some(amt) ELSE None,
      sent |-> IF pay THEN Some(send_ok) ELSE None,
      at_pay |-> IF pay THEN Some(sc) ELSE None,
      trace |-> calls \o EventTypes(events) \o <<"STABILITY_CHECK">>
                  \o (IF pay THEN <<"send", PaymentEvent(sc, amt, send_ok).type>>
                      ELSE <<>>)]

\* mutant of Skip: the on-chain balance is refreshed before the price is
\* found missing
Skip_ReadsOnchain(sc, price_calls) ==
  Stopped("returned", UpdateOnchain(sc, 5), <<SkipEvent>>,
          price_calls \o <<"list_balances">>, None, None, None)

\* lines 99-105: no valid price, one STABILITY_SKIP event and return
Skip(sc, price_calls) ==
  Stopped("returned", sc, <<SkipEvent>>, price_calls, None, None, None)

\* mutant of SetPrice: a price the tracker already knows is kept
SetPrice_KeepsKnown(sc, current_price) ==
  IF sc.latest_price = 0 THEN [sc EXCEPT !.latest_price = current_price] ELSE sc

\* line 109
SetPrice(sc, current_price) == [sc EXCEPT !.latest_price = current_price]

\* the whole of check_stability
check_stability(sc, price, cached_price, onchain_sats, channels, send_ok, checks) ==
  LET resolved == ResolvePrice(price, cached_price)
      price_calls == IF price > 0 THEN <<>> ELSE <<"get_cached_price">>
  IN IF resolved = None
     THEN Skip(sc, price_calls)
     ELSE LET sc1 == SetPrice(sc, resolved[1])
              ub == update_balances(sc1, cached_price, cached_price, None,
                                    onchain_sats,
                                    channels, checks)
              events == ub.events
              calls == price_calls \o ub.calls
          IN IF ub.ret = "panic"
             THEN Stopped("panic", ub.sc, events, calls, resolved, None, ub.matched)
             ELSE IF ~ub.success
             THEN Stopped("returned", ub.sc,
                          events \o <<BalanceUpdateFailedEvent(ub.sc)>>, calls,
                          resolved, Some(FALSE), ub.matched)
             ELSE Decide(ub.sc, events, calls, resolved, ub.matched, send_ok)

(***************************************************************************)
(* The state machine: a caller that owns one StableChannel and calls       *)
(* update_balances and check_stability in any order, against a runtime     *)
(* that may report anything within the input domains.                      *)
(***************************************************************************)
NewStableChannel(channel_id, is_receiver, expected_usd, risk_level) ==
  [channel_id |-> channel_id, is_receiver |-> is_receiver,
   counterparty |-> "counterparty", expected_usd |-> expected_usd,
   latest_price |-> 0, onchain_btc |-> 0, onchain_usd |-> 0,
   receiver_btc |-> 0, receiver_usd |-> 0, provider_btc |-> 0,
   provider_usd |-> 0, risk_level |-> risk_level, payment_made |-> FALSE]

Init ==
  /\ stable_channel \in
       {NewStableChannel(ZeroChannelId, r, c[1], c[2]) :
          r \in BOOLEAN, c \in Configs}
  /\ reconciled = None
  /\ last = [Stopped("none", stable_channel, <<>>, <<>>, None, None, None)
               EXCEPT !.sc = None]
              @@ [op |-> "new", price_arg |-> 0, cached |-> None, listed |-> None]
  /\ endur = [node |-> None]
  /\ endur_last = [op |-> "new", ret |-> [ok |-> TRUE, err |-> "", val |-> <<>>]]
  /\ processing = None

ChannelIdsOf(channels) == [i \in 1..Len(channels) |-> channels[i].channel_id]

\* the record of a call: its result without the tracker, the operation, the
\* price argument, the cached prices it read, in order (None when it read
\* none) and the channel ids list_channels reported, in order (None when it was not called)
Observe(op, price, cached, channels, r) ==
  [r EXCEPT !.sc = None]
    @@ [op |-> op, price_arg |-> price, cached |-> cached,
        listed |-> IF Count(r.calls, "list_channels") > 0
                   THEN Some(ChannelIdsOf(channels)) ELSE None]

NextReconciled(r) ==
  IF r.ret = "returned" /\ r.matched # None THEN r.matched ELSE reconciled

\* the outcomes of integer overflow differ by build; the choice arises only
\* for a call whose matching channel makes lines 58-59 overflow
Builds(sc, channels) ==
  LET m == matching_channel(sc, channels)
  IN IF m # None /\ Overflows(m[1]) THEN BOOLEAN ELSE {FALSE}

UpdateBalancesCall ==
  /\ last.ret # "panic"
  /\ \E cached_price \in
          (IF stable_channel.latest_price = 0 THEN CachedPrices ELSE {0}) :
       \E cached_again \in
            (IF stable_channel.latest_price = 0 /\ cached_price = 0
             THEN CachedPrices ELSE {0}) :
       \E fetched \in
            (IF stable_channel.latest_price = 0 /\ cached_price = 0
                  /\ cached_again <= 0
             THEN FetchResults ELSE {None}) :
         \E onchain_sats \in OnchainSats, channels \in ChannelLists :
           \E checks \in Builds(stable_channel, channels) :
             LET ub == update_balances(stable_channel, cached_price,
                                       cached_again, fetched,
                                       onchain_sats, channels, checks)
                 r == Stopped(ub.ret, ub.sc, ub.events, ub.calls, None,
                              IF ub.ret = "panic" THEN None ELSE Some(ub.success),
                              ub.matched)
             IN /\ stable_channel' = ub.sc
                /\ reconciled' = NextReconciled(r)
                /\ last' = Observe("update_balances", 0,
                                   IF stable_channel.latest_price # 0 THEN None
                                   ELSE IF cached_price = 0
                                   THEN <<cached_price, cached_again>>
                                   ELSE <<cached_price>>,
                                   channels, r)
  /\ UNCHANGED endur_vars

CheckStabilityCall ==
  /\ last.ret # "panic"
  /\ \E price \in PriceArgs :
       \E cached_price \in (IF price > 0 THEN {0} ELSE CachedPrices) :
         LET priced == ResolvePrice(price, cached_price) # None IN
         \E onchain_sats \in (IF priced THEN OnchainSats ELSE {0}),
            channels \in (IF priced THEN ChannelLists ELSE {<<>>}) :
           \E checks \in (IF priced THEN Builds(stable_channel, channels)
                          ELSE {FALSE}) :
             LET sent == check_stability(stable_channel, price, cached_price,
                                         onchain_sats, channels, TRUE, checks)
             IN \E send_ok \in (IF sent.sent # None THEN BOOLEAN ELSE {TRUE}) :
                  LET r == IF send_ok THEN sent
                           ELSE check_stability(stable_channel, price,
                                                cached_price, onchain_sats,
                                                channels, FALSE, checks)
                  IN /\ stable_channel' = r.sc
                     /\ reconciled' = NextReconciled(r)
                     /\ last' = Observe("check_stability", price,
                                        IF price > 0 THEN None
                                        ELSE Some(cached_price),
                                        channels, r)
  /\ UNCHANGED endur_vars

Next == UpdateBalancesCall \/ CheckStabilityCall

Spec == Init /\ [][Next]_vars

(***************************************************************************)
(* lib.rs: the Endur handle.  It holds at most one node of the Lightning   *)
(* runtime.  The runtime's answers (whether build, start, stop and the     *)
(* other node calls succeed, which events are pending) are inputs.         *)
(***************************************************************************)
DataDirs == {None, Some("a")}

NodeEvents ==
  {[kind |-> "ChannelReady", arg |-> 1],
   [kind |-> "PaymentReceived", arg |-> 1000],
   [kind |-> "PaymentSuccessful", arg |-> 7],
   [kind |-> "PaymentFailed", arg |-> 7]}

MaxPending == 2

\* the most events one process_events returns: the runtime queues no further
\* event during a call that has this many collected or still to read
MaxReturned == 5

AmountsSats == {1, 5}

NodeBalances == {<<5, 94>>}

Ok(v) == [ok |-> TRUE, err |-> "", val |-> <<v>>]

Err(message) == [ok |-> FALSE, err |-> message, val |-> <<>>]

\* lines 14-17
new == [node |-> None]

\* lines 20-34: the node the builder makes for a storage directory, with no
\* event pending
BuiltNode(data_dir) == [data_dir |-> data_dir, events |-> <<>>]

\* node.node_id(): the identity kept in the node's storage directory
NodeIdOf(node) == <<"node_id", node.data_dir>>

\* lines 19-44
start(self, data_dir, build_ok, start_ok) ==
  IF ~build_ok THEN [self |-> self, ret |-> Err("Build failed")]
  ELSE IF ~start_ok THEN [self |-> self, ret |-> Err("Start failed")]
  ELSE [self |-> [self EXCEPT !.node = Some(BuiltNode(data_dir))],
        ret |-> Ok(NodeIdOf(BuiltNode(data_dir)))]

\* mutant of stop: the node is given up only when its stop succeeded
stop_KeepsNodeOnError(self, stop_ok) ==
  IF self.node # None
  THEN IF stop_ok THEN [self |-> [self EXCEPT !.node = None], ret |-> Ok(<<>>)]
       ELSE [self |-> self, ret |-> Err("Stop failed")]
  ELSE [self |-> self, ret |-> Ok(<<>>)]

\* lines 46-53: take() empties the field before the node's stop is called
stop(self, stop_ok) ==
  IF self.node # None
  THEN [self |-> [self EXCEPT !.node = None],
        ret |-> IF stop_ok THEN Ok(<<>>) ELSE Err("Stop failed")]
  ELSE [self |-> self, ret |-> Ok(<<>>)]

\* lines 55-57
is_running(self) == self.node # None

\* lines 59-66
node_id(self) ==
  IF self.node # None THEN Ok(NodeIdOf(self.node[1]))
  ELSE Err("Node not started")

\* lines 68-92; line 71 multiplies on u64: with overflow checks a product out
\* of range panics, without them it wraps
generate_invoice(self, amount_sats, description_ok, receive_ok, checks) ==
  IF self.node # None
  THEN IF amount_sats * 1000 >= U64Modulus /\ checks THEN Err("panic")
       ELSE IF ~description_ok THEN Err("Invalid description")
       ELSE IF ~receive_ok THEN Err("Invoice generation failed")
       ELSE Ok(<<"invoice", (amount_sats * 1000) % U64Modulus, 3600>>)
  ELSE Err("Node not started")

\* lines 94-106
get_new_address(self, address_ok) ==
  IF self.node # None
  THEN IF address_ok THEN Ok("address") ELSE Err("Address generation failed")
  ELSE Err("Node not started")

\* lines 108-121
get_balances(self, balances) ==
  IF self.node # None THEN Ok(balances) ELSE Err("Node not started")

\* lines 128-139
format_event(event) ==
  IF event.kind = "ChannelReady" THEN <<"Channel ready: ", event.arg>>
  ELSE IF event.kind = "PaymentReceived"
  THEN <<"Payment received: ", event.arg, " msats">>
  ELSE IF event.kind = "PaymentSuccessful"
  THEN <<"Payment successful: ", event.arg>>
  ELSE <<"Other event: ", event.kind, event.arg>>

\* line 127: the oldest pending event, which stays queued
next_event(node) ==
  IF node.events = <<>> THEN None ELSE Some(Head(node.events))

\* line 141: the oldest pending event is removed
event_handled(node) == [node EXCEPT !.events = Tail(@)]

Called(op, ret) == [op |-> op, ret |-> ret]

StartCall ==
  /\ processing = None
  /\ \E data_dir \in DataDirs, build_ok \in BOOLEAN :
       \E start_ok \in (IF build_ok THEN BOOLEAN ELSE {TRUE}) :
         LET r == start(endur, data_dir, build_ok, start_ok)
         IN /\ endur' = r.self
            /\ endur_last' = Called("start", r.ret)
  /\ UNCHANGED <<processing, tracker_vars>>

StopCall ==
  /\ processing = None
  /\ \E stop_ok \in (IF endur.node # None THEN BOOLEAN ELSE {TRUE}) :
       LET r == stop(endur, stop_ok)
       IN /\ endur' = r.self
          /\ endur_last' = Called("stop", r.ret)
  /\ UNCHANGED <<processing, tracker_vars>>

IsRunningCall ==
  /\ processing = None
  /\ endur_last' = Called("is_running", Ok(is_running(endur)))
  /\ UNCHANGED <<endur, processing, tracker_vars>>

NodeIdCall ==
  /\ processing = None
  /\ endur_last' = Called("node_id", node_id(endur))
  /\ UNCHANGED <<endur, processing, tracker_vars>>

GenerateInvoiceCall ==
  /\ processing = None
  /\ \E amount_sats \in AmountsSats :
       LET held == endur.node # None
           over == held /\ amount_sats * 1000 >= U64Modulus
       IN \E checks \in (IF over THEN BOOLEAN ELSE {FALSE}) :
            LET made == held /\ ~(over /\ checks) IN
            \E description_ok \in (IF made THEN BOOLEAN ELSE {TRUE}) :
              \E receive_ok \in (IF made /\ description_ok THEN BOOLEAN
                                 ELSE {TRUE}) :
                endur_last' = Called("generate_invoice",
                                     generate_invoice(endur, amount_sats,
                                                      description_ok,
                                                      receive_ok, checks))
  /\ UNCHANGED <<endur, processing, tracker_vars>>

GetNewAddressCall ==
  /\ processing = None
  /\ \E address_ok \in (IF endur.node # None THEN BOOLEAN ELSE {TRUE}) :
       endur_last' = Called("get_new_address", get_new_address(endur, address_ok))
  /\ UNCHANGED <<endur, processing, tracker_vars>>

GetBalancesCall ==
  /\ processing = None
  /\ \E balances \in NodeBalances :
       endur_last' = Called("get_balances", get_balances(endur, balances))
  /\ UNCHANGED <<endur, processing, tracker_vars>>

\* the events of the held node that next_event has not returned yet to the
\* process_events in progress
Unread ==
  Len(endur.node[1].events)
    - (IF processing # None /\ processing[1].unhandled THEN 1 ELSE 0)

\* lines 123-126 and 145-148: without a node the call fails at once; with one
\* it enters the loop with an empty vector
ProcessEventsCall ==
  /\ processing = None
  /\ IF endur.node # None
     THEN /\ processing' = Some([events |-> <<>>, unhandled |-> FALSE])
          /\ endur_last' = Called("process_events_entered", Ok(<<>>))
     ELSE /\ processing' = None
          /\ endur_last' = Called("process_events", Err("Node not started"))
  /\ UNCHANGED <<endur, tracker_vars>>

\* lines 127-140: next_event returns the oldest pending event, which stays
\* queued; it is formatted and pushed
ProcessEventsNextEvent ==
  /\ processing # None
  /\ ~processing[1].unhandled
  /\ next_event(endur.node[1]) # None
  /\ processing' =
       Some([events |-> Append(processing[1].events,
                               format_event(next_event(endur.node[1])[1])),
             unhandled |-> TRUE])
  /\ endur_last' = Called("next_event", Ok(<<>>))
  /\ UNCHANGED <<endur, tracker_vars>>

\* line 141: event_handled removes the event that was read; its result is
\* dropped
ProcessEventsEventHandled ==
  /\ processing # None
  /\ processing[1].unhandled
  /\ endur' = [endur EXCEPT !.node = Some(event_handled(endur.node[1]))]
  /\ processing' = Some([processing[1] EXCEPT !.unhandled = FALSE])
  /\ endur_last' = Called("event_handled", Ok(<<>>))
  /\ UNCHANGED tracker_vars

\* lines 127 and 143: next_event finds nothing pending, the vector is returned
ProcessEventsReturn ==
  /\ processing # None
  /\ ~processing[1].unhandled
  /\ next_event(endur.node[1]) = None
  /\ processing' = None
  /\ endur_last' = Called("process_events", Ok(processing[1].events))
  /\ UNCHANGED <<endur, tracker_vars>>

\* the runtime queues an event on the held node (what next_event of line 127
\* will return), also while process_events is in its loop, between
\* next_event and event_handled as well as between iterations
NodeEventArrives ==
  /\ endur.node # None
  /\ Unread < MaxPending
  /\ processing # None => Len(processing[1].events) + Unread < MaxReturned
  /\ \E event \in NodeEvents :
       endur' = [endur EXCEPT
                   !.node = Some([endur.node[1] EXCEPT
                                    !.events = Append(@, event)])]
  /\ endur_last' = Called("event", Ok(<<>>))
  /\ UNCHANGED <<processing, tracker_vars>>

EndurInit ==
  /\ endur = new
  /\ endur_last = Called("new", [ok |-> TRUE, err |-> "", val |-> <<>>])
  /\ processing = None
  /\ stable_channel = NewStableChannel(ZeroChannelId, TRUE, 100, 10)
  /\ reconciled = None
  /\ last = [Stopped("none", stable_channel, <<>>, <<>>, None, None, None)
               EXCEPT !.sc = None]
              @@ [op |-> "new", price_arg |-> 0, cached |-> None, listed |-> None]

EndurNext ==
  \/ StartCall
  \/ StopCall
  \/ IsRunningCall
  \/ NodeIdCall
  \/ GenerateInvoiceCall
  \/ GetNewAddressCall
  \/ GetBalancesCall
  \/ ProcessEventsCall
  \/ ProcessEventsNextEvent
  \/ ProcessEventsEventHandled
  \/ ProcessEventsReturn
  \/ NodeEventArrives

EndurSpec == EndurInit /\ [][EndurNext]_vars

(***************************************************************************)
(* Properties                                                              *)
(***************************************************************************)
\* the latest call was a check_stability that reached action selection
Decided == last.op = "check_stability" /\ last.action # "NONE"

\* percent_from_par of the latest decision against the 0.1 threshold
PercentBelow == last.percent_den # 0 /\ last.percent_num * 10 < last.percent_den
PercentExactly == last.percent_den # 0 /\ last.percent_num * 10 = last.percent_den

\* rule (3) of the action selection, on the values of the latest decision
DirectionRule ==
  \/ stable_channel.is_receiver /\ last.is_receiver_below_expected
  \/ ~stable_channel.is_receiver /\ ~last.is_receiver_below_expected

PaymentEvents(events) ==
  {i \in 1..Len(events) :
     events[i].type \in {"STABILITY_PAYMENT_SENT", "STABILITY_PAYMENT_FAILED"}}

NoPaymentIn(obs) ==
  /\ Count(obs.calls, "send") = 0
  /\ obs.sent = None
  /\ PaymentEvents(obs.events) = {}

\* C1: the receiver with risk_level 10, expected_usd 100 and a reconciled
\* receiver_usd of 94
C1_Case ==
  /\ Decided
  /\ last.matched # None
  /\ stable_channel.is_receiver
  /\ stable_channel.risk_level = 10
  /\ stable_channel.expected_usd = 100
  /\ stable_channel.receiver_usd = 94

\* C1 as claimed: in that case percent_from_par is 6.0, the action is PAY and
\* the payment trigger is invoked with the amount of 6.00 USD at latest_price
C1_Original ==
  C1_Case =>
    /\ last.percent_num = 6 * last.percent_den
    /\ last.action = "PAY"
    /\ last.sent # None
    /\ last.amt = Some(USD_to_msats(6, stable_channel.latest_price))

\* C1 as amended: in that case percent_from_par is 6.0, the action is
\* CHECK_ONLY, STABILITY_CHECK is emitted and the payment trigger is not invoked
C1_Amended ==
  C1_Case =>
    /\ last.percent_num = 6 * last.percent_den
    /\ last.action = "CHECK_ONLY"
    /\ EventTypes(last.events) = <<"BALANCE_UPDATE", "STABILITY_CHECK">>
    /\ NoPaymentIn(last)

C1_Witness == C1_Case /\ last.action = "CHECK_ONLY" /\ last.percent_num = 600

\* a check_stability that resolved a price and whose update_balances, for a
\* tracker whose channel_id is set, found no channel with that id
C2_Case ==
  /\ last.op = "check_stability"
  /\ last.ret = "returned"
  /\ Count(last.calls, "list_channels") = 1
  /\ last.matched = None
  /\ stable_channel.channel_id # ZeroChannelId

\* C2: with channel_id set and no channel of that id, update_balances reports
\* failure, and check_stability emits BALANCE_UPDATE_FAILED and stops with no
\* action, no STABILITY_CHECK and no payment attempt
C2_Claim ==
  C2_Case =>
    /\ last.success = Some(FALSE)
    /\ EventTypes(last.events) = <<"BALANCE_UPDATE_FAILED">>
    /\ last.action = "NONE"
    /\ NoPaymentIn(last)

\* C3: the action of every decision is the first matching rule of (1) percent
\* below 0.1: STABLE, (2) risk_level above 100: HIGH_RISK_NO_ACTION, (3) the
\* direction rule: CHECK_ONLY, (4) PAY; and it is one of these four
C3_FirstMatchingRule ==
  Decided =>
    /\ last.action \in {"STABLE", "HIGH_RISK_NO_ACTION", "CHECK_ONLY", "PAY"}
    /\ PercentBelow => last.action = "STABLE"
    /\ (~PercentBelow /\ stable_channel.risk_level > 100)
         => last.action = "HIGH_RISK_NO_ACTION"
    /\ (~PercentBelow /\ stable_channel.risk_level <= 100 /\ DirectionRule)
         => last.action = "CHECK_ONLY"
    /\ (~PercentBelow /\ stable_channel.risk_level <= 100 /\ ~DirectionRule)
         => last.action = "PAY"

C3_Witness ==
  /\ Decided
  /\ PercentBelow
  /\ stable_channel.risk_level > 100
  /\ last.action = "STABLE"

\* C4 as claimed: percent_from_par at or below 0.1 gives STABLE and no payment;
\* above 0.1 with risk_level <= 100 and rule (3) not matching gives PAY
C4_Original ==
  Decided =>
    /\ (PercentBelow \/ PercentExactly)
         => (last.action = "STABLE" /\ NoPaymentIn(last))
    /\ (~PercentBelow /\ ~PercentExactly /\ stable_channel.risk_level <= 100
          /\ ~DirectionRule) => last.action = "PAY"

\* C4 as amended: percent_from_par strictly below 0.1 gives STABLE and no
\* payment; exactly 0.1 or above, with risk_level <= 100 and rule (3) not
\* matching, gives PAY
C4_Amended ==
  Decided =>
    /\ PercentBelow => (last.action = "STABLE" /\ NoPaymentIn(last))
    /\ (~PercentBelow /\ stable_channel.risk_level <= 100 /\ ~DirectionRule)
         => (last.action = "PAY" /\ last.sent # None)

C4_Witness == Decided /\ PercentExactly /\ last.action = "PAY"

\* C5: a check_stability whose action is not PAY makes no payment call, emits
\* no STABILITY_PAYMENT_* event and leaves payment_made as it was
C5_PaymentOnlyOnPay ==
  [][(last'.op = "check_stability" /\ last'.action # "PAY") =>
       /\ NoPaymentIn(last')
       /\ stable_channel'.payment_made = stable_channel.payment_made]_vars

C5_Witness ==
  /\ Decided
  /\ last.action = "CHECK_ONLY"
  /\ ~PercentBelow
  /\ stable_channel.risk_level <= 100
  /\ stable_channel.payment_made

\* C6: with risk_level above 100 every decision whose deviation is at least
\* 0.1% is HIGH_RISK_NO_ACTION, whatever the direction, and no call ever
\* invokes the payment trigger
C6_RiskOverride ==
  stable_channel.risk_level > 100 =>
    /\ (Decided /\ ~PercentBelow) => last.action = "HIGH_RISK_NO_ACTION"
    /\ NoPaymentIn(last)
    /\ ~stable_channel.payment_made

C6_Witness ==
  /\ Decided
  /\ stable_channel.risk_level > 100
  /\ last.action = "HIGH_RISK_NO_ACTION"
  /\ ~DirectionRule

\* C7: check_stability with a non-positive price argument and a non-positive
\* cached price emits STABILITY_SKIP alone, reads no balance and no channel,
\* computes no action, attempts no payment and leaves every field of the
\* tracker other than latest_price as it was
C7_SkipLeavesTracker ==
  [][(/\ last'.op = "check_stability"
      /\ last'.price_arg <= 0
      /\ last'.cached # None
      /\ last'.cached[1] <= 0) =>
       /\ EventTypes(last'.events) = <<"STABILITY_SKIP">>
       /\ Count(last'.calls, "list_balances") = 0
       /\ Count(last'.calls, "list_channels") = 0
       /\ last'.action = "NONE"
       /\ NoPaymentIn(last')
       /\ last'.ret = "returned"
       /\ \A f \in DOMAIN stable_channel \ {"latest_price"} :
            stable_channel'[f] = stable_channel[f]]_vars

C7_Witness ==
  /\ last.op = "check_stability"
  /\ last.price_arg <= 0
  /\ last.cached = Some(0)
  /\ EventTypes(last.events) = <<"STABILITY_SKIP">>
  /\ stable_channel.channel_id # ZeroChannelId
  /\ stable_channel.payment_made

\* C8: when the action is PAY there is one send; if it succeeds payment_made
\* is true and STABILITY_PAYMENT_SENT is emitted, if it fails payment_made is
\* as before and STABILITY_PAYMENT_FAILED is emitted; the call returns, and no
\* other field of the tracker differs from its value before the send
C8_PaymentOutcome ==
  (Decided /\ last.action = "PAY") =>
    /\ last.ret = "returned"
    /\ Count(last.calls, "send") = 1
    /\ last.calls[Len(last.calls)] = "send"
    /\ Cardinality(PaymentEvents(last.events)) = 1
    /\ last.sent # None /\ last.at_pay # None
    /\ last.sent[1] =>
         /\ stable_channel.payment_made
         /\ last.events[Len(last.events)].type = "STABILITY_PAYMENT_SENT"
    /\ ~last.sent[1] =>
         /\ stable_channel.payment_made = last.at_pay[1].payment_made
         /\ last.events[Len(last.events)].type = "STABILITY_PAYMENT_FAILED"
    /\ [stable_channel EXCEPT !.payment_made = last.at_pay[1].payment_made]
         = last.at_pay[1]

C8_Witness ==
  /\ Decided
  /\ last.action = "PAY"
  /\ last.sent = Some(FALSE)
  /\ stable_channel.payment_made

\* C9: once a reconciliation has matched a channel, receiver_btc + provider_btc
\* equals the channel_value_sats of the channel matched last
C9_Claim ==
  reconciled # None =>
    stable_channel.receiver_btc + stable_channel.provider_btc
      = reconciled[1].channel_value_sats

\* C10: after a matching reconciliation, with X = outbound_capacity_msat / 1000
\* + reserve and C the channel value, the receiver has receiver_btc = X and
\* provider_btc = C - X, the provider has provider_btc = X and
\* receiver_btc = C - X
C10_Claim ==
  (last.ret = "returned" /\ last.matched # None) =>
    LET channel == last.matched[1]
        X == (channel.outbound_capacity_msat \div 1000)
               + unwrap_or(channel.unspendable_punishment_reserve, 0)
        C == channel.channel_value_sats
    IN IF stable_channel.is_receiver
       THEN stable_channel.receiver_btc = X /\ stable_channel.provider_btc = C - X
       ELSE stable_channel.provider_btc = X /\ stable_channel.receiver_btc = C - X

(* ------------------------------------------------------------------ *)
(* update_balances without a matching channel                          *)
(* ------------------------------------------------------------------ *)

ChannelFields ==
  {"receiver_btc", "receiver_usd", "provider_btc", "provider_usd",
   "channel_id", "expected_usd", "is_receiver", "risk_level",
   "counterparty"}

\* C11: a call of update_balances that finds no matching channel leaves
\* receiver_btc, receiver_usd, provider_btc, provider_usd, channel_id,
\* expected_usd, is_receiver, risk_level and payment_made as they were (none
\* is zeroed) and changes latest_price only when it was 0; the reconciliation
\* inside check_stability leaves the same channel fields as they were
C11_NoMatchKeepsFields ==
  [][(last'.ret = "returned" /\ last'.listed # None /\ last'.matched = None) =>
       /\ \A f \in ChannelFields : stable_channel'[f] = stable_channel[f]
       /\ last'.op = "update_balances" =>
            /\ stable_channel'.payment_made = stable_channel.payment_made
            /\ stable_channel.latest_price # 0 =>
                 stable_channel'.latest_price = stable_channel.latest_price]_vars

\* update_balances found no channel for a tracker that holds balances of an
\* earlier reconciliation
C11_Witness ==
  /\ last.op = "update_balances" /\ last.ret = "returned"
  /\ last.listed # None /\ last.matched = None
  /\ stable_channel.channel_id # ZeroChannelId
  /\ stable_channel.receiver_btc > 0 /\ stable_channel.receiver_usd > 0
  /\ stable_channel.provider_btc > 0

(* ------------------------------------------------------------------ *)
(* Channel pinning                                                     *)
(* ------------------------------------------------------------------ *)

\* C12: a set channel_id never changes, whatever list_channels reports and in
\* whatever order; an unset channel_id becomes the id of the first reported
\* channel, and stays unset while the reported list is empty
C12_ChannelPinning ==
  [][/\ stable_channel.channel_id # ZeroChannelId =>
          stable_channel'.channel_id = stable_channel.channel_id
     /\ (stable_channel.channel_id = ZeroChannelId /\ last'.listed # None) =>
          /\ last'.listed[1] # <<>> =>
               /\ last'.matched # None
               /\ last'.matched[1].channel_id = last'.listed[1][1]
               /\ stable_channel'.channel_id = last'.listed[1][1]
          /\ last'.listed[1] = <<>> =>
               stable_channel'.channel_id = ZeroChannelId
     /\ (stable_channel.channel_id = ZeroChannelId /\ last'.listed = None) =>
          stable_channel'.channel_id = ZeroChannelId]_vars

\* the pinned channel is reported second, after a channel with another id,
\* and is still the one that is reconciled
C12_Witness ==
  /\ last.listed = Some(<<2, 1>>)
  /\ stable_channel.channel_id = 1
  /\ last.matched # None /\ last.matched[1].channel_id = 1

(* ------------------------------------------------------------------ *)
(* Audit events and the order of a check_stability call                *)
(* ------------------------------------------------------------------ *)

Actions == {"STABLE", "HIGH_RISK_NO_ACTION", "CHECK_ONLY", "PAY"}

PaymentSteps == {"send", "STABILITY_PAYMENT_SENT", "STABILITY_PAYMENT_FAILED"}

\* every a of the trace comes before every b of the trace
Before(trace, a, b) ==
  \A i, j \in 1..Len(trace) : (trace[i] = a /\ trace[j] = b) => i < j

\* a check_stability that resolved a price and whose reconciliation returned
\* success
Reconciled ==
  /\ last.op = "check_stability"
  /\ last.resolved # None
  /\ last.success = Some(TRUE)

\* C13: a check_stability that resolved a price and whose reconciliation
\* succeeded emits one STABILITY_CHECK event, which carries the chosen action,
\* one of the four, and comes before the send and before either
\* STABILITY_PAYMENT_* event
C13_OneStabilityCheck ==
  Reconciled =>
    LET checks == {i \in 1..Len(last.events) :
                     last.events[i].type = "STABILITY_CHECK"}
    IN /\ Cardinality(checks) = 1
       /\ Count(last.trace, "STABILITY_CHECK") = 1
       /\ last.action \in Actions
       /\ \A i \in checks :
            /\ last.events[i].action = last.action
            /\ \A j \in PaymentEvents(last.events) : i < j
       /\ \A step \in PaymentSteps : Before(last.trace, "STABILITY_CHECK", step)

\* a paying call ends with STABILITY_CHECK, the send and the event of its
\* outcome, in that order
C13_Witness ==
  /\ Reconciled
  /\ last.action = "PAY"
  /\ Len(last.trace) >= 3
  /\ SubSeq(last.trace, Len(last.trace) - 2, Len(last.trace))
       = <<"STABILITY_CHECK", "send", "STABILITY_PAYMENT_SENT">>

\* C14: every call of update_balances that returns, alone or inside
\* check_stability, whether or not it matched a channel, emits one
\* BALANCE_UPDATE event that carries the channel id, both sides' balances in
\* BTC and USD and the price
C14_Claim ==
  (last.listed # None /\ last.ret = "returned") =>
    \E i \in 1..Len(last.events) :
      /\ last.events[i] = BalanceUpdateEvent(stable_channel)
      /\ \A j \in 1..Len(last.events) :
           last.events[j].type = "BALANCE_UPDATE" => j = i

CallOrder ==
  <<"get_cached_price", "list_balances", "list_channels", "BALANCE_UPDATE",
    "STABILITY_CHECK", "send">>

\* C15: one check_stability reads the cached price, lists the balances, lists
\* the channels and calls send at most once each and never fetches a price;
\* these come in the order price resolution, reconciliation, STABILITY_CHECK
\* (action selection), send; send is called only for PAY; and after a
\* reconciliation without a match or a failed send nothing more is called
C15_SinglePass ==
  last.op = "check_stability" =>
    /\ \A c \in {"get_cached_price", "list_balances", "list_channels", "send"} :
         /\ Count(last.trace, c) <= 1
         /\ Count(last.calls, c) = Count(last.trace, c)
    /\ Count(last.trace, "get_latest_price") = 0
    /\ \A i, j \in 1..Len(CallOrder) :
         i < j => Before(last.trace, CallOrder[i], CallOrder[j])
    /\ Count(last.trace, "send") = 1 <=> last.action = "PAY"
    /\ Count(last.trace, "list_channels") = Count(last.trace, "list_balances")
    /\ last.sent = Some(FALSE) =>
         last.trace[Len(last.trace)] = "STABILITY_PAYMENT_FAILED"

\* a paying call whose price came from the cache and whose send failed: each
\* step once, in order
C15_Witness ==
  /\ last.op = "check_stability"
  /\ last.trace = <<"get_cached_price", "list_balances", "list_channels",
                    "BALANCE_UPDATE", "STABILITY_CHECK", "send",
                    "STABILITY_PAYMENT_FAILED">>

(* ------------------------------------------------------------------ *)
(* Price resolution                                                    *)
(* ------------------------------------------------------------------ *)

Fetched == {0} \cup {f[1] : f \in FetchResults \ {None}}

\* the step is a check_stability that resolved its price as claimed: the
\* argument when positive, else the cached price when positive (reading the
\* cache only then, and once); when not skipped, latest_price is the resolved
\* positive price, the reconciliation read no cached price and fetched none,
\* and onchain_usd and the btc_price of BALANCE_UPDATE and STABILITY_CHECK are
\* at that price
ResolvedStep ==
  last'.op = "check_stability" =>
    /\ last'.resolved =
         (IF last'.price_arg > 0 THEN Some(last'.price_arg)
          ELSE IF last'.cached[1] > 0 THEN last'.cached ELSE None)
    /\ Count(last'.trace, "get_cached_price")
         = (IF last'.price_arg > 0 THEN 0 ELSE 1)
    /\ Count(last'.trace, "get_latest_price") = 0
    /\ last'.resolved # None =>
         LET p == last'.resolved[1]
             sc == stable_channel'
         IN /\ p > 0
            /\ sc.latest_price = p
            /\ sc.onchain_usd = USD_from_bitcoin(sc.onchain_btc, p)
            /\ \A i \in 1..Len(last'.events) :
                 last'.events[i].type \in {"BALANCE_UPDATE", "STABILITY_CHECK"}
                   => last'.events[i].btc_price = p

\* the step is an update_balances that changes latest_price only from 0: to
\* the cached price when the first read is not 0; else to the second read of
\* the cache when that is positive, without a fetch; else to the fetched
\* price, or 0 when the fetch fails
LookupStep ==
  last'.op = "update_balances" =>
    /\ stable_channel.latest_price # 0 =>
         /\ stable_channel'.latest_price = stable_channel.latest_price
         /\ Count(last'.trace, "get_cached_price") = 0
         /\ Count(last'.trace, "get_latest_price") = 0
    /\ stable_channel.latest_price = 0 =>
         IF last'.cached[1] # 0
         THEN /\ stable_channel'.latest_price = last'.cached[1]
              /\ Count(last'.trace, "get_cached_price") = 1
              /\ Count(last'.trace, "get_latest_price") = 0
         ELSE IF last'.cached[2] > 0
         THEN /\ stable_channel'.latest_price = last'.cached[2]
              /\ Count(last'.trace, "get_cached_price") = 2
              /\ Count(last'.trace, "get_latest_price") = 0
         ELSE /\ stable_channel'.latest_price \in Fetched
              /\ Count(last'.trace, "get_cached_price") = 2
              /\ Count(last'.trace, "get_latest_price") = 1

\* the tracker's receiver_usd and provider_usd, and the receiver_usd that
\* STABILITY_CHECK carries, are the BTC balances at the price p
UsdAt(sc, events, p) ==
  /\ sc.receiver_usd = USD_from_bitcoin(sc.receiver_btc, p)
  /\ sc.provider_usd = USD_from_bitcoin(sc.provider_btc, p)
  /\ \A i \in 1..Len(events) :
       events[i].type = "STABILITY_CHECK" =>
         events[i].current_receiver_usd = USD_from_bitcoin(sc.receiver_btc, p)

\* C16: check_stability resolves the price to the argument when positive, else
\* to the cached price when positive; every invocation that is not skipped
\* sets latest_price to the resolved price before the reconciliation, which
\* then reads no cache and fetches nothing, and the USD balances and
\* STABILITY_CHECK are at exactly the resolved price; update_balances on its
\* own changes latest_price only when it is 0 on entry
C16_Claim ==
  [][/\ ResolvedStep
     /\ LookupStep
     /\ (last'.op = "check_stability" /\ last'.resolved # None
           /\ last'.ret = "returned") =>
          UsdAt(stable_channel', last'.events, last'.resolved[1])]_vars

\* the part of C16 that holds: as C16, with the USD balances at the resolved
\* price in the invocations whose reconciliation matched a channel
C16_PriceResolution ==
  [][/\ ResolvedStep
     /\ LookupStep
     /\ (last'.op = "check_stability" /\ last'.resolved # None
           /\ last'.ret = "returned" /\ last'.matched # None) =>
          UsdAt(stable_channel', last'.events, last'.resolved[1])]_vars

\* update_balances read the cache twice, 0 and then a positive price, and took
\* the second without a fetch
C16_SecondRead ==
  /\ last.op = "update_balances"
  /\ last.cached = <<0, 2>>
  /\ stable_channel.latest_price = 2
  /\ Count(last.trace, "get_latest_price") = 0

\* a check_stability without a positive price argument took the cached price
\* and reconciled a channel at it, on a tracker that had paid before
C16_Witness ==
  /\ last.op = "check_stability" /\ last.ret = "returned"
  /\ last.price_arg <= 0
  /\ last.resolved = Some(2)
  /\ last.matched # None
  /\ stable_channel.latest_price = 2
  /\ stable_channel.receiver_btc > 0
  /\ stable_channel.receiver_usd = 2 * stable_channel.receiver_btc
  /\ stable_channel.payment_made

(* ------------------------------------------------------------------ *)
(* The counterparty balance                                            *)
(* ------------------------------------------------------------------ *)

\* C17: for every channel a reconciliation matches, outbound_capacity_msat /
\* 1000 + reserve is at most channel_value_sats, the call returns instead of
\* aborting, and receiver_btc and provider_btc both lie in
\* 0..channel_value_sats instead of wrapping
C17_Claim ==
  (last.listed # None /\ last.matched # None) =>
    LET channel == last.matched[1]
    IN /\ our_balance_sum(channel) <= channel.channel_value_sats
       /\ last.ret = "returned"
       /\ stable_channel.receiver_btc \in 0..channel.channel_value_sats
       /\ stable_channel.provider_btc \in 0..channel.channel_value_sats

(* ------------------------------------------------------------------ *)
(* Direction of a payment and the payment flag                         *)
(* ------------------------------------------------------------------ *)

\* C18: whenever the action is PAY the local party holds the surplus: it is
\* the receiver and receiver_usd is above expected_usd, or it is the provider
\* and receiver_usd is below expected_usd; the amount sent is |dollars_from_par|
\* at latest_price, which is not more than the distance of receiver_usd from
\* expected_usd
C18_PayerHoldsSurplus ==
  (Decided /\ last.action = "PAY") =>
    LET sc == last.at_pay[1]
        d == sc.receiver_usd - sc.expected_usd
    IN /\ last.dollars_from_par = d
       /\ \/ sc.is_receiver /\ sc.receiver_usd > sc.expected_usd /\ d > 0
          \/ ~sc.is_receiver /\ sc.receiver_usd < sc.expected_usd /\ d < 0
       /\ last.amt = Some(USD_to_msats(d, sc.latest_price))
       /\ last.amt[1] * sc.latest_price <= Abs(d) * 1000

\* the provider pays a receiver that is below par
C18_Witness ==
  /\ Decided
  /\ last.action = "PAY"
  /\ ~stable_channel.is_receiver
  /\ last.dollars_from_par < 0
  /\ last.sent = Some(TRUE)
  /\ last.amt # None /\ last.amt[1] > 0

\* C19: no step sets payment_made from true to false, and a step sets it true
\* only when its send has just returned success
C19_PaymentMadeMonotone ==
  [][/\ stable_channel.payment_made => stable_channel'.payment_made
     /\ (~stable_channel.payment_made /\ stable_channel'.payment_made) =>
          /\ last'.op = "check_stability"
          /\ last'.action = "PAY"
          /\ last'.sent = Some(TRUE)
          /\ last'.trace[Len(last'.trace)] = "STABILITY_PAYMENT_SENT"]_vars

\* payment_made is still true after a later check_stability that found the
\* channel stable
C19_Witness ==
  /\ stable_channel.payment_made
  /\ last.op = "check_stability"
  /\ last.action = "STABLE"

(* ------------------------------------------------------------------ *)
(* The Endur handle                                                    *)
(* ------------------------------------------------------------------ *)

Queries ==
  {"node_id", "generate_invoice", "get_new_address", "get_balances",
   "process_events"}

HeldDir(self) == IF self.node = None THEN None ELSE Some(self.node[1].data_dir)

\* C20: is_running() is false on a new handle and becomes true only by a
\* start() that succeeded; it is false after every stop(), whether the node's
\* stop succeeded or failed; a failed start() leaves the held node as it was;
\* node_id, generate_invoice, get_new_address, get_balances and process_events
\* fail with "Node not started" exactly when no node is held, and leave the
\* held node the one it was, through every node call of the loop of
\* process_events too
C20_NodeLifecycle ==
  [][/\ endur_last.op = "new" => ~is_running(endur)
     /\ (~is_running(endur) /\ is_running(endur')) =>
          (endur_last'.op = "start" /\ endur_last'.ret.ok)
     /\ (endur_last'.op = "start" /\ endur_last'.ret.ok) => is_running(endur')
     /\ (endur_last'.op = "start" /\ ~endur_last'.ret.ok) =>
          /\ endur' = endur
          /\ endur_last'.ret.err \in {"Build failed", "Start failed"}
     /\ endur_last'.op = "stop" => ~is_running(endur')
     /\ endur_last'.op = "is_running" =>
          /\ endur_last'.ret.val = <<is_running(endur)>>
          /\ endur' = endur
     /\ endur_last'.op \in Queries =>
          /\ endur_last'.ret.err = "Node not started" <=> ~is_running(endur)
          /\ is_running(endur') = is_running(endur)
          /\ HeldDir(endur') = HeldDir(endur)
     /\ endur_last'.op \in {"process_events_entered", "next_event",
                           "event_handled"} =>
          /\ is_running(endur)
          /\ HeldDir(endur') = HeldDir(endur)
     /\ processing # None => is_running(endur)]_vars

\* a stop() whose node failed to stop: the handle holds no node, and the query
\* after it fails with "Node not started"
C20_Witness ==
  /\ endur_last.op = "stop"
  /\ endur_last.ret.err = "Stop failed"
  /\ ~is_running(endur)

====
